---- MODULE Spec2Model ----
(***************************************************************************)
(* Meeting Cost Ticker (src/main.py): the meetings/attendees store, the    *)
(* wall clock, and the request handlers of the FastAPI application.        *)
(* Handlers are plain `def` routes, which FastAPI runs on a thread pool,   *)
(* so two requests interleave at their database round trips: every         *)
(* db.commit() publishes a transaction, and the code between two commits   *)
(* of one handler is a separate step of the model.                         *)
(***************************************************************************)
EXTENDS Integers, Sequences, FiniteSets, TLC

\* ---- bounds of the model ----
MaxMeetings == 2    \* rows the meetings table may reach
MaxLen      == 2    \* longest names[] / rates[] form list
MaxTime     == 1    \* largest clock reading

\* ---- the inputs a client can submit ----
Workers  == {"t1", "t2"}                        \* threads of the pool
WS       == {" "}                               \* whitespace str.strip() removes
NameSet  == {<<" ">>, <<" ", "a">>}               \* names as character sequences
RateSet  == {-1, 0, 2}                          \* hourly rates
SeqsUpTo(S, n) == UNION {[1..k -> S] : k \in 1..n}    \* Form(...) is required: never empty

VARIABLES meetings, attendees, now, pc, local, response

vars == <<meetings, attendees, now, pc, local, response>>

\* ---- helpers ----
Min(a, b) == IF a <= b THEN a ELSE b

\* Optional DateTime column: <<>> is NULL, <<t>> a timestamp.
NULL == <<>>
Some(t) == <<t>>

\* str.strip(): drop leading and trailing whitespace.
RECURSIVE LStrip(_)
LStrip(s) == IF s # <<>> /\ Head(s) \in WS THEN LStrip(Tail(s)) ELSE s
RECURSIVE RStrip(_)
RStrip(s) == IF s # <<>> /\ s[Len(s)] \in WS THEN RStrip(SubSeq(s, 1, Len(s) - 1)) ELSE s
Strip(s) == RStrip(LStrip(s))

\* zip(names, rates): pairs up to the shorter list.
Zip(names, rates) == [i \in 1..Min(Len(names), Len(rates)) |-> <<names[i], rates[i]>>]

\* Mutant: the rate is not looked at.
IsValidEntry_NameOnly(n, r) == Strip(n) # <<>>
\* Mutants of the filter: a rate of 0 rejected; the name not stripped.
IsValidEntry_StrictRate(n, r) == Strip(n) # <<>> /\ r > 0
IsValidEntry_NoStrip(n, r) == n # <<>> /\ r >= 0

\* `if n.strip() and r >= 0`
IsValidEntry(n, r) == Strip(n) # <<>> /\ r >= 0

\* The loop of start_meeting building valid_entries.
RECURSIVE FilterLoop(_, _)
FilterLoop(pairs, acc) ==
    IF pairs = <<>> THEN acc
    ELSE LET n == Head(pairs)[1]
             r == Head(pairs)[2]
         IN FilterLoop(Tail(pairs), IF IsValidEntry(n, r) THEN Append(acc, <<n, r>>) ELSE acc)
ValidEntries(names, rates) == FilterLoop(Zip(names, rates), <<>>)

\* Meeting(start_time=datetime.now(), is_active=True); id is the new rowid.
NewMeeting(id, t) == [id |-> id, start_time |-> t, end_time |-> NULL, is_active |-> TRUE]

\* Mutant: the attendees are attached to the first meeting of the table.
NewAttendees_FirstMeeting(mid, entries, firstId) ==
    [i \in 1..Len(entries) |->
        [id |-> firstId + i - 1, meeting_id |-> 1,
         name |-> entries[i][1], hourly_rate |-> entries[i][2]]]

\* Attendee(meeting_id=new_meeting.id, name=name, hourly_rate=rate), one per entry,
\* ids continuing the attendees table.
NewAttendees(mid, entries, firstId) ==
    [i \in 1..Len(entries) |->
        [id |-> firstId + i - 1, meeting_id |-> mid,
         name |-> entries[i][1], hourly_rate |-> entries[i][2]]]

\* Mutant: the stop stamps start_time as well.
StopRecord_Restamp(m, t) == [m EXCEPT !.is_active = FALSE, !.end_time = Some(t), !.start_time = t]
\* Mutants of the stop: end_time not stamped; is_active flipped instead of cleared.
StopRecord_NoEndTime(m, t) == [m EXCEPT !.is_active = FALSE]
StopRecord_Toggle(m, t) == [m EXCEPT !.is_active = ~m.is_active, !.end_time = Some(t)]

\* meeting.is_active = False; meeting.end_time = datetime.now()
StopRecord(m, t) == [m EXCEPT !.is_active = FALSE, !.end_time = Some(t)]

\* db.query(Meeting).filter(Meeting.is_active == True).first(): 0 when None.
ActiveIds(ms) == {i \in 1..Len(ms) : ms[i].is_active}
\* Mutant: the newest meeting, active or not.
FirstActive_Newest(ms) == Len(ms)
\* Mutant: the query without its is_active filter.
FirstActive_Unfiltered(ms) == IF ms = <<>> THEN 0 ELSE 1
FirstActive(ms) ==
    IF ActiveIds(ms) = {} THEN 0
    ELSE CHOOSE i \in ActiveIds(ms) : \A j \in ActiveIds(ms) : i <= j

\* Mutant: the lookup falls back to the newest meeting.
FindMeeting_Fallback(ms, mid) == IF mid \in 1..Len(ms) THEN mid ELSE Len(ms)

\* db.query(Meeting).filter(Meeting.id == meeting_id).first(): 0 when None.
FindMeeting(ms, mid) == IF mid \in 1..Len(ms) THEN mid ELSE 0

\* meeting.attendees: the rows of the attendees table owned by the meeting.
AttendeesOf(as, mid) == SelectSeq(as, LAMBDA a : a.meeting_id = mid)

\* ---- responses: the response most recently written by a handler ----
NoLocal == [valid_entries |-> <<>>, meeting_id |-> 0]
\* The template context of a page that computes nothing.
NoContext == [start_time |-> 0, total_hourly_rate |-> 0, attendee_count |-> 0,
              duration_seconds |-> 0, duration_str |-> <<>>, total_cost |-> <<0, 1>>]
NoResponse == [op |-> "none", status |-> 0, target |-> "", meeting_id |-> 0, context |-> NoContext]
Redirect(op, code, url, mid) ==
    [op |-> op, status |-> code, target |-> url, meeting_id |-> mid, context |-> NoContext]
Page(op, template, mid, ctx) ==
    [op |-> op, status |-> 200, target |-> template, meeting_id |-> mid, context |-> ctx]
NotFound(op, mid) ==
    [op |-> op, status |-> 404, target |-> "Meeting not found", meeting_id |-> mid,
     context |-> NoContext]

\* ---- the arithmetic of dashboard and summary ----
\* sum(a.hourly_rate for a in meeting.attendees)
RECURSIVE SumRates(_)
SumRates(as) == IF as = <<>> THEN 0 ELSE Head(as).hourly_rate + SumRates(Tail(as))

\* A quotient p / q (q > 0) in lowest terms, <<numerator, denominator>>.
Abs(n) == IF n < 0 THEN -n ELSE n
RECURSIVE GCD(_, _)
GCD(a, b) == IF b = 0 THEN a ELSE GCD(b, a % b)
Quot(p, q) == LET g == GCD(Abs(p), q) IN <<p \div g, q \div g>>
Times(x, n) == Quot(x[1] * n, x[2])

\* format(n, "02d"): decimal digits, zero-padded to width 2, the sign counted.
Digit(n) == <<"0", "1", "2", "3", "4", "5", "6", "7", "8", "9">>[n + 1]
RECURSIVE Digits(_)
Digits(n) == IF n < 10 THEN <<Digit(n)>> ELSE Append(Digits(n \div 10), Digit(n % 10))
Pad2(n) == IF n < 0 THEN <<"-">> \o Digits(-n)
           ELSE IF n < 10 THEN <<"0">> \o Digits(n)
           ELSE Digits(n)

\* end = meeting.end_time or datetime.now(); (end - start).total_seconds()
EndOf(m, t) == IF m.end_time # NULL THEN m.end_time[1] ELSE t
DurationSeconds(m, t) == EndOf(m, t) - m.start_time

\* Mutant: the hours wrapped into a day.
DurationStr_Wrapped(d) ==
    LET remainder == d % 3600
    IN Pad2((d \div 3600) % 24) \o <<":">> \o Pad2(remainder \div 60) \o <<":">> \o Pad2(remainder % 60)

\* divmod(duration_seconds, 3600), divmod(remainder, 60) and the f-string.
DurationStr(d) ==
    LET hours     == d \div 3600
        remainder == d % 3600
        minutes   == remainder \div 60
        seconds   == remainder % 60
    IN Pad2(hours) \o <<":">> \o Pad2(minutes) \o <<":">> \o Pad2(seconds)

\* Mutant: the cost per minute instead of per hour.
TotalCost_PerMinute(d, total_hourly_rate) == Times(Quot(d, 60), total_hourly_rate)

\* (duration_seconds / 3600) * total_hourly_rate
TotalCost(d, total_hourly_rate) == Times(Quot(d, 3600), total_hourly_rate)

\* The context handed to summary.html.
SummaryContext(m, as, t) ==
    [start_time |-> m.start_time,
     total_hourly_rate |-> SumRates(as),
     attendee_count |-> Len(as),
     duration_seconds |-> DurationSeconds(m, t),
     duration_str |-> DurationStr(DurationSeconds(m, t)),
     total_cost |-> TotalCost(DurationSeconds(m, t), SumRates(as))]

\* The context handed to dashboard.html.
DashboardContext(m, as) ==
    [NoContext EXCEPT !.start_time = m.start_time,
                      !.total_hourly_rate = SumRates(as),
                      !.attendee_count = Len(as)]

\* The handler returns: its thread is free again and its response is written.
Return(w, r) ==
    /\ pc' = [pc EXCEPT ![w] = "idle"]
    /\ local' = [local EXCEPT ![w] = NoLocal]
    /\ response' = r

Init ==
    /\ meetings = <<>>
    /\ attendees = <<>>
    /\ now = 0
    /\ pc = [w \in Workers |-> "idle"]
    /\ local = [w \in Workers |-> NoLocal]
    /\ response = NoResponse

\* ---- the wall clock read by datetime.now() ----
Tick ==
    /\ now < MaxTime
    /\ now' = now + 1
    /\ UNCHANGED <<meetings, attendees, pc, local, response>>


\* ---- POST /start, lines 85-97: filter, early return, first commit ----
StartMeeting_Insert(w, names, rates) ==
    /\ pc[w] = "idle"
    /\ LET valid_entries == ValidEntries(names, rates)
       IN IF valid_entries = <<>>
          THEN /\ Return(w, Redirect("start", 303, "/setup", 0))
               /\ UNCHANGED <<meetings, attendees, now>>
          ELSE /\ Len(meetings) < MaxMeetings
               /\ meetings' = Append(meetings, NewMeeting(Len(meetings) + 1, now))
               /\ pc' = [pc EXCEPT ![w] = "start_attendees"]
               /\ local' = [local EXCEPT ![w] = [valid_entries |-> valid_entries,
                                                 meeting_id |-> Len(meetings) + 1]]
               /\ UNCHANGED <<attendees, now, response>>

\* ---- POST /start, lines 99-104: the attendees and the second commit ----
StartMeeting_Attendees(w) ==
    /\ pc[w] = "start_attendees"
    /\ attendees' = attendees \o NewAttendees(local[w].meeting_id, local[w].valid_entries,
                                              Len(attendees) + 1)
    /\ Return(w, Redirect("start", 303, "/dashboard", local[w].meeting_id))
    /\ UNCHANGED <<meetings, now>>

\* ---- POST /stop, line 124 (and 130): the query ----
StopMeeting_Query(w) ==
    /\ pc[w] = "idle"
    /\ LET meeting == FirstActive(meetings)
       IN IF meeting # 0
          THEN /\ pc' = [pc EXCEPT ![w] = "stop_commit"]
               /\ local' = [local EXCEPT ![w] = [NoLocal EXCEPT !.meeting_id = meeting]]
               /\ UNCHANGED response
          ELSE Return(w, Redirect("stop", 303, "/", 0))
    /\ UNCHANGED <<meetings, attendees, now>>

\* ---- POST /stop, lines 126-129: the update of the row read and the commit ----
StopMeeting_Commit(w) ==
    /\ pc[w] = "stop_commit"
    /\ LET mid == local[w].meeting_id
       IN /\ meetings' = [meetings EXCEPT ![mid] = StopRecord(meetings[mid], now)]
          /\ Return(w, Redirect("stop", 303, "/summary", mid))
    /\ UNCHANGED <<attendees, now>>

\* Mutant: the summary of an active meeting persists its provisional end.
Summary_Persist(w, meeting_id) ==
    /\ pc[w] = "idle"
    /\ LET meeting == FindMeeting(meetings, meeting_id)
       IN IF meeting = 0
          THEN /\ Return(w, NotFound("summary", meeting_id))
               /\ UNCHANGED meetings
          ELSE /\ Return(w, Page("summary", "summary.html", meeting,
                                  SummaryContext(meetings[meeting],
                                                 AttendeesOf(attendees, meeting), now)))
               /\ meetings' = IF meetings[meeting].is_active
                               THEN [meetings EXCEPT ![meeting] = StopRecord(meetings[meeting], now)]
                               ELSE meetings
    /\ UNCHANGED <<attendees, now>>

\* ---- GET /summary/{meeting_id} ----
Summary(w, meeting_id) ==
    /\ pc[w] = "idle"
    /\ LET meeting == FindMeeting(meetings, meeting_id)
       IN IF meeting = 0
          THEN Return(w, NotFound("summary", meeting_id))
          ELSE Return(w, Page("summary", "summary.html", meeting,
                              SummaryContext(meetings[meeting],
                                             AttendeesOf(attendees, meeting), now)))
    /\ UNCHANGED <<meetings, attendees, now>>

\* ---- GET /dashboard ----
Dashboard(w) ==
    /\ pc[w] = "idle"
    /\ LET meeting == FirstActive(meetings)
       IN IF meeting = 0
          THEN Return(w, Redirect("dashboard", 307, "/", 0))
          ELSE Return(w, Page("dashboard", "dashboard.html", meeting,
                              DashboardContext(meetings[meeting],
                                               AttendeesOf(attendees, meeting))))
    /\ UNCHANGED <<meetings, attendees, now>>

\* ---- GET / ----
Root(w) ==
    /\ pc[w] = "idle"
    /\ IF FirstActive(meetings) # 0
       THEN Return(w, Redirect("root", 307, "/dashboard", 0))
       ELSE Return(w, Redirect("root", 307, "/setup", 0))
    /\ UNCHANGED <<meetings, attendees, now>>

\* ---- GET /setup ----
SetupPage(w) ==
    /\ pc[w] = "idle"
    /\ IF FirstActive(meetings) # 0
       THEN Return(w, Redirect("setup", 307, "/dashboard", 0))
       ELSE Return(w, Page("setup", "setup.html", 0, NoContext))
    /\ UNCHANGED <<meetings, attendees, now>>

NameLists == SeqsUpTo(NameSet, MaxLen)
RateLists == SeqsUpTo(RateSet, MaxLen)

Next ==
    \/ Tick
    \/ \E w \in Workers, names \in NameLists, rates \in RateLists :
          StartMeeting_Insert(w, names, rates)
    \/ \E w \in Workers : StartMeeting_Attendees(w)
    \/ \E w \in Workers : StopMeeting_Query(w)
    \/ \E w \in Workers : StopMeeting_Commit(w)
    \/ \E w \in Workers, meeting_id \in 1..(MaxMeetings + 1) : Summary(w, meeting_id)
    \/ \E w \in Workers : Dashboard(w)
    \/ \E w \in Workers : Root(w)
    \/ \E w \in Workers : SetupPage(w)

Spec == Init /\ [][Next]_vars

\* ---- one request at a time (spec.md section 5: each operation runs to completion
\* before the next begins): a request is taken only when no handler is running ----
Quiet == \A w \in Workers : pc[w] = "idle"

NextSeq ==
    \/ Tick
    \/ \E w \in Workers, names \in NameLists, rates \in RateLists :
          Quiet /\ StartMeeting_Insert(w, names, rates)
    \/ \E w \in Workers : StartMeeting_Attendees(w)
    \/ \E w \in Workers : Quiet /\ StopMeeting_Query(w)
    \/ \E w \in Workers : StopMeeting_Commit(w)
    \/ \E w \in Workers, meeting_id \in 1..(MaxMeetings + 1) : Quiet /\ Summary(w, meeting_id)
    \/ \E w \in Workers : Quiet /\ Dashboard(w)
    \/ \E w \in Workers : Quiet /\ Root(w)
    \/ \E w \in Workers : Quiet /\ SetupPage(w)

SpecSeq == Init /\ [][NextSeq]_vars

\* ---- the wall clock set back: datetime.now() is naive local time, which
\* repeats an hour at the end of daylight saving and follows clock adjustments ----
ClockSetBack ==
    /\ now > 0
    /\ now' \in 0..(now - 1)
    /\ UNCHANGED <<meetings, attendees, pc, local, response>>

NextClock ==
    \/ NextSeq
    \/ ClockSetBack

SpecClock == Init /\ [][NextClock]_vars

\* ---- the arithmetic of summary and dashboard on one stored meeting: a meeting
\* started at s that ran d seconds, still active or stopped, with its attendees ----
CalcStarts    == {0, 7}
CalcDurations == {0, 1, 59, 60, 3599, 3600, 5400, 86399, 108000, 360000}
CalcRateLists == {<<10, 20>>, <<60>>, <<0>>, <<2, 0, 5>>}
CalcEntries(rates) == [i \in 1..Len(rates) |-> <<(<<"a">>), rates[i]>>]

InitCalc ==
    \E s \in CalcStarts, d \in CalcDurations, rates \in CalcRateLists, active \in BOOLEAN :
        /\ meetings = << IF active THEN NewMeeting(1, s)
                         ELSE StopRecord(NewMeeting(1, s), s + d) >>
        /\ attendees = NewAttendees(1, CalcEntries(rates), 1)
        /\ now = s + d
        /\ pc = [w \in Workers |-> "idle"]
        /\ local = [w \in Workers |-> NoLocal]
        /\ response = NoResponse

NextCalc ==
    \/ \E w \in Workers, meeting_id \in 1..(MaxMeetings + 1) : Summary(w, meeting_id)
    \/ \E w \in Workers : Dashboard(w)

SpecCalc == InitCalc /\ [][NextCalc]_vars

(***************************************************************************)
(* Properties                                                              *)
(***************************************************************************)
MeetingIds == 1..Len(meetings)
Started(w) == pc[w] = "start_attendees"
\* The meetings whose StartMeeting request has returned.
Created(i) == \A w \in Workers : ~(Started(w) /\ local[w].meeting_id = i)
\* The (name, rate) pairs of a meeting's attendees, in table order.
EntriesOf(as, i) == [k \in 1..Len(AttendeesOf(as, i)) |->
                        <<AttendeesOf(as, i)[k].name, AttendeesOf(as, i)[k].hourly_rate>>]
\* A name that is empty or whitespace only.
IsBlank(n) == \A k \in 1..Len(n) : n[k] \in WS
\* The entries a client submits: the pairs of the two form lists.
Keep(e) == ~IsBlank(e[1]) /\ e[2] >= 0
AllDropped(names, rates) ==
    \A k \in 1..Min(Len(names), Len(rates)) : IsBlank(names[k]) \/ rates[k] < 0
\* The submissions in which every entry has a blank name or a negative rate.
DroppedInputs == {x \in NameLists \X RateLists : AllDropped(x[1], x[2])}

\* C1: at most one Meeting is active in every reachable state.
C1_AtMostOneActive == Cardinality(ActiveIds(meetings)) <= 1

\* C2: every Meeting visible in the store has at least one Attendee.
C2_MeetingHasAttendees == \A i \in MeetingIds : AttendeesOf(attendees, i) # <<>>

C4_EndTimeAssignedOnce ==
    [][\A i \in MeetingIds :
        meetings[i].end_time # NULL => meetings'[i].end_time = meetings[i].end_time]_vars

\* C5: the attendees of the created Meeting are exactly the submitted entries with
\* a non-blank name and rate >= 0, in the original order.
C5_AttendeesAreFilteredEntries ==
    [][\A w \in Workers :
        /\ (pc[w] = "idle" /\ Started(w)')
            => \A names \in NameLists, rates \in RateLists :
                 StartMeeting_Insert(w, names, rates)
                 => local'[w].valid_entries = SelectSeq(Zip(names, rates), Keep)
        /\ (Started(w) /\ Started(w)') => local'[w] = local[w]
        /\ (Started(w) /\ ~Started(w)')
            => /\ EntriesOf(attendees', local[w].meeting_id) = local[w].valid_entries
               /\ EntriesOf(attendees, local[w].meeting_id) = <<>>
               /\ response' = Redirect("start", 303, "/dashboard", local[w].meeting_id)]_vars
C5_Witness ==
    /\ response = Redirect("start", 303, "/dashboard", 1)
    /\ EntriesOf(attendees, 1) = << <<(<<" ", "a">>), 2>>, <<(<<" ", "a">>), 0>> >>

\* C6: StartMeeting with only blank-named or negative-rate entries ends in
\* NoValidAttendees (redirect to /setup) and leaves the store unchanged: a step
\* of thread w either has that outcome or is no StartMeeting of such a submission.
C6_NoValidAttendees ==
    [][\A w \in Workers :
        \/ /\ meetings' = meetings
           /\ attendees' = attendees
           /\ pc'[w] = "idle"
           /\ response' = Redirect("start", 303, "/setup", 0)
        \/ \E v \in Workers \ {w} : pc'[v] # pc[v]    \* a step of another thread
        \/ \A x \in DroppedInputs : ~StartMeeting_Insert(w, x[1], x[2])]_vars
C6_Witness ==
    /\ response = Redirect("start", 303, "/setup", 0)
    /\ meetings = <<>>
    /\ attendees = <<>>

\* C7: for every Meeting, endTime is set if and only if isActive is false.
C7_EndTimeIffInactive ==
    \A i \in MeetingIds : (meetings[i].end_time # NULL) <=> ~meetings[i].is_active
C7_Witness ==
    /\ Len(meetings) = 2
    /\ ~meetings[1].is_active
    /\ meetings[2].is_active

\* C8: an inactive Meeting stays inactive, and no Meeting leaves the store.
C8_OneWayLifecycle ==
    [][\A i \in MeetingIds :
        /\ i <= Len(meetings')
        /\ meetings'[i].id = meetings[i].id
        /\ ~meetings[i].is_active => ~meetings'[i].is_active]_vars
C8_Witness ==
    /\ Len(meetings) = 2
    /\ ~meetings[1].is_active
    /\ meetings[1].end_time = Some(0)
    /\ now = 1
    /\ response = Redirect("stop", 303, "/summary", 1)
    /\ ~meetings[2].is_active

\* C9: once a Meeting has been created, its startTime and its attendees never change.
C9_CreatedMeetingImmutable ==
    [][\A i \in MeetingIds :
        /\ i <= Len(meetings')
        /\ meetings'[i].start_time = meetings[i].start_time
        /\ Created(i) => AttendeesOf(attendees', i) = AttendeesOf(attendees, i)]_vars
C9_Witness ==
    /\ Len(meetings) = 2
    /\ AttendeesOf(attendees, 1) # <<>>
    /\ AttendeesOf(attendees, 2) # <<>>
    /\ meetings[1].start_time = 0
    /\ meetings[1].end_time = Some(1)
    /\ response.op = "summary"

\* C10: ComputeSummary changes no Meeting and no Attendee record; an active
\* meeting it is called on is still active, without an endTime, afterwards.
C10_SummaryReadOnly ==
    [][\A w \in Workers, meeting_id \in 1..(MaxMeetings + 1) :
        Summary(w, meeting_id) => /\ meetings' = meetings
                                  /\ attendees' = attendees]_vars
C10_Witness ==
    /\ response.op = "summary"
    /\ response.status = 200
    /\ meetings[response.meeting_id].is_active
    /\ meetings[response.meeting_id].end_time = NULL
    /\ now > meetings[response.meeting_id].start_time

\* C11: ComputeSummary of an id that matches no Meeting answers 404, computes
\* nothing and leaves the store unchanged; of an id that matches, it answers the
\* summary page of that meeting.
C11_SummaryNotFound ==
    [][\A w \in Workers, meeting_id \in 1..(MaxMeetings + 1) :
        Summary(w, meeting_id)
        => /\ meetings' = meetings
           /\ attendees' = attendees
           /\ IF \E i \in MeetingIds : meetings[i].id = meeting_id
              THEN /\ response'.status = 200
                   /\ response'.target = "summary.html"
                   /\ meetings[response'.meeting_id].id = meeting_id
              ELSE /\ response'.status = 404
                   /\ response'.context = NoContext]_vars
C11_Witness ==
    /\ response.op = "summary"
    /\ response.status = 404
    /\ response.meeting_id = 2
    /\ Len(meetings) = 1

\* The summary page most recently rendered.
IsSummary(r) == r.op = "summary" /\ r.status = 200

\* C12: the durationSeconds of a summary is never negative, whatever the clock
\* reads, and so its totalCost is never negative.
C12_DurationNonNegative ==
    IsSummary(response) =>
        /\ response.context.duration_seconds >= 0
        /\ response.context.total_cost[1] >= 0

\* Reading a rendered HH:MM:SS back: the fields between the colons as numbers.
DigitValue(c) == CHOOSE k \in 0..9 : Digit(k) = c
RECURSIVE FieldValue(_)
FieldValue(f) ==
    IF f = <<>> THEN 0 ELSE 10 * FieldValue(SubSeq(f, 1, Len(f) - 1)) + DigitValue(f[Len(f)])
Colons(str) == {i \in 1..Len(str) : str[i] = ":"}
FirstColon(str) == CHOOSE i \in Colons(str) : \A j \in Colons(str) : i <= j
LastColon(str) == CHOOSE i \in Colons(str) : \A j \in Colons(str) : j <= i
HH(str) == SubSeq(str, 1, FirstColon(str) - 1)
MM(str) == SubSeq(str, FirstColon(str) + 1, LastColon(str) - 1)
SS(str) == SubSeq(str, LastColon(str) + 1, Len(str))
IsNumber(f) == \A k \in 1..Len(f) : f[k] \in {Digit(n) : n \in 0..9}
\* At least two digits, and no zero in front of a longer number.
ZeroPadded(f) == IsNumber(f) /\ Len(f) >= 2 /\ (Len(f) > 2 => f[1] # "0")

\* C13: for every duration d >= 0 of whole seconds the durationString is zero-padded
\* HH:MM:SS with HH = d div 3600 (not wrapped), MM = (d mod 3600) div 60, SS = d mod 60.
C13_DurationString ==
    (IsSummary(response) /\ response.context.duration_seconds >= 0) =>
        LET d   == response.context.duration_seconds
            str == response.context.duration_str
        IN /\ Cardinality(Colons(str)) = 2
           /\ ZeroPadded(HH(str)) /\ FieldValue(HH(str)) = d \div 3600
           /\ ZeroPadded(MM(str)) /\ Len(MM(str)) = 2 /\ FieldValue(MM(str)) = (d % 3600) \div 60
           /\ ZeroPadded(SS(str)) /\ Len(SS(str)) = 2 /\ FieldValue(SS(str)) = d % 60
           /\ d = 0 => str = <<"0", "0", ":", "0", "0", ":", "0", "0">>
           /\ d = 3600 => str = <<"0", "1", ":", "0", "0", ":", "0", "0">>
           /\ d = 5400 => str = <<"0", "1", ":", "3", "0", ":", "0", "0">>
           /\ d = 108000 => str = <<"3", "0", ":", "0", "0", ":", "0", "0">>
C13_Witness ==
    /\ IsSummary(response)
    /\ response.context.duration_seconds = 108000
    /\ response.context.duration_str = <<"3", "0", ":", "0", "0", ":", "0", "0">>

\* The rates of a meeting's attendees added up row by row of the table.
RECURSIVE RateSum(_, _, _)
RateSum(as, mid, k) ==
    IF k = 0 THEN 0
    ELSE RateSum(as, mid, k - 1) + (IF as[k].meeting_id = mid THEN as[k].hourly_rate ELSE 0)

\* C14: totalCost = (durationSeconds / 3600) * (sum of the attendees' hourlyRate), and
\* attendeeCount is the number of attendees; 1 hour at rates 10 and 20 costs 30, no
\* elapsed time costs 0.
C14_TotalCost ==
    IsSummary(response) =>
        LET c     == response.context
            mid   == response.meeting_id
            total == RateSum(attendees, mid, Len(attendees))
        IN /\ c.duration_seconds = EndOf(meetings[mid], now) - meetings[mid].start_time
           /\ c.total_cost[2] > 0 /\ 3600 % c.total_cost[2] = 0
           /\ c.total_cost[1] * (3600 \div c.total_cost[2]) = c.duration_seconds * total
           /\ c.attendee_count = Cardinality({k \in 1..Len(attendees) : attendees[k].meeting_id = mid})
           /\ (c.duration_seconds = 3600 /\ total = 30) => c.total_cost = <<30, 1>>
           /\ c.duration_seconds = 0 => c.total_cost = <<0, 1>>
C14_Witness ==
    /\ IsSummary(response)
    /\ ~meetings[1].is_active
    /\ response.context.duration_seconds = 3600
    /\ response.context.attendee_count = 2
    /\ response.context.total_cost = <<30, 1>>

\* What the dashboard hands out for the active meeting it selects, and the cost a
\* client shows from it at clock reading t.
DashboardView(ms, as) ==
    LET meeting == FirstActive(ms) IN DashboardContext(ms[meeting], AttendeesOf(as, meeting))
LiveCost(c, t) == (t - c.start_time) * c.total_hourly_rate

\* C15: for one active meeting the live cost never decreases as the clock advances,
\* and two dashboard views of it hand out the same totalHourlyRate.
C15_LiveCostMonotonic ==
    [][(/\ FirstActive(meetings) # 0
        /\ FirstActive(meetings') = FirstActive(meetings)
        /\ now' >= now)
       => /\ DashboardView(meetings', attendees').total_hourly_rate
                = DashboardView(meetings, attendees).total_hourly_rate
          /\ LiveCost(DashboardView(meetings, attendees), now)
                <= LiveCost(DashboardView(meetings', attendees'), now')]_vars

\* C16: StopMeeting with no active Meeting ends in NoActiveMeeting (redirect to
\* "/", no meeting id) and leaves every Meeting and Attendee record unchanged.
C16_StopWithoutActive ==
    [][\A w \in Workers :
        (ActiveIds(meetings) = {} /\ StopMeeting_Query(w))
        => /\ meetings' = meetings
           /\ attendees' = attendees
           /\ pc'[w] = "idle"
           /\ response'.op = "stop"
           /\ response'.target = "/"
           /\ response'.meeting_id = 0]_vars
C16_Witness ==
    /\ response.op = "stop"
    /\ response.target = "/"
    /\ Len(meetings) = 2
    /\ \A i \in MeetingIds : meetings[i].end_time # NULL

\* C17: every Attendee in the store has hourlyRate >= 0 and a non-blank name.
C17_AttendeesValid ==
    \A k \in 1..Len(attendees) :
        attendees[k].hourly_rate >= 0 /\ ~IsBlank(attendees[k].name)
C17_Witness ==
    /\ Len(attendees) = 4
    /\ attendees[1].hourly_rate = 0
    /\ attendees[4].hourly_rate = 2

\* C18: right after a StopMeeting that returns a meeting id, no Meeting is active.
C18_NoActiveAfterStop ==
    [][\A w \in Workers : StopMeeting_Commit(w) => ActiveIds(meetings') = {}]_vars

\* C19: right after a StartMeeting that succeeds, the first active Meeting (the
\* one the dashboard shows and StopMeeting stops) is the meeting just created.
C19_DashboardShowsNewMeeting ==
    [][\A w \in Workers :
        StartMeeting_Attendees(w) => FirstActive(meetings') = local[w].meeting_id]_vars

\* C20: a successful StopMeeting changes only isActive and endTime of the one
\* Meeting whose id it returns; every other record and field is unchanged.
C20_StopFrame ==
    [][\A w \in Workers :
        StopMeeting_Commit(w)
        => /\ response'.target = "/summary"
           /\ response'.meeting_id \in MeetingIds
           /\ Len(meetings') = Len(meetings)
           /\ \A i \in MeetingIds :
                IF i = response'.meeting_id
                THEN /\ meetings'[i].id = meetings[i].id
                     /\ meetings'[i].start_time = meetings[i].start_time
                     /\ meetings'[i].is_active = FALSE
                     /\ meetings'[i].end_time = Some(now)
                ELSE meetings'[i] = meetings[i]
           /\ attendees' = attendees]_vars
C20_Witness ==
    /\ response.op = "stop"
    /\ response.target = "/summary"
    /\ response.meeting_id = 1
    /\ Len(meetings) = 2
    /\ meetings[1].start_time = 0
    /\ meetings[1].end_time = Some(1)
    /\ meetings[2].is_active
    /\ AttendeesOf(attendees, 1) # <<>>

====
